---------------------------- MODULE Spec2Model ----------------------------
(***************************************************************************)
(* Certomancer-as-a-service: the two-tier (per-process + redis) cache of   *)
(* dynamically registered PKI architectures and of their certificates.     *)
(*                                                                         *)
(* Two implementations live in the repository and both are modelled:       *)
(*   "aas"  certomancer-as-a-service/certomancer_aas.py (digest labels,    *)
(*          a dict as the certificate cache's local layer)                 *)
(*   "wsgi" certomancer-service-docker/wsgi.py (uuid4 labels, lru_cache    *)
(*          around the architecture and the certificate lookups)           *)
(* A deployment runs one of them on all of its workers (variable impl).    *)
(*                                                                         *)
(* Each worker handles one request at a time, synchronously.  One action   *)
(* of a worker is the local computation of the handler up to and including *)
(* its next redis call: redis calls are the only points where workers      *)
(* interact.  Time is counted in ticks; a redis entry holds the number of  *)
(* ticks it has left and disappears when that number reaches zero.         *)
(***************************************************************************)
EXTENDS Integers, Sequences, FiniteSets, TLC

VARIABLES
    impl,       \* the implementation this deployment runs
    store,      \* redis: key -> [val, ttl]; only live entries are present
    storeUp,    \* whether redis is reachable
    pc,         \* per worker: position in the request being handled
    req,        \* per worker: the request being handled
    cur,        \* per worker: request-local objects (architecture, cert cache)
    log,        \* per worker: the redis calls of the request so far
    out,        \* the request the last step finished (NoOut if it finished none)
    archLru,    \* per worker: lru_cache around RedisBackedArchStore._get (wsgi)
    nextUuid,   \* number of uuid4 labels drawn so far (wsgi)
    regSeen,    \* history: config -> its first successful registration
    hist        \* history of a certificate cache driven on its own (SpecCache)

vars == <<impl, store, storeUp, pc, req, cur, log, out, archLru, nextUuid,
          regSeen, hist>>

---------------------------------------------------------------------------
(* Bounds of the model *)

\* Settings.redis_arch_ttl, in ticks (the default is 48 times the cert TTL)
ArchTTL == 2

\* Settings.redis_cert_ttl, in ticks
CertTTL == 1

\* how many uuid4 labels a wsgi deployment may draw
MaxUuid == 2

---------------------------------------------------------------------------
(* Values *)

Workers == {"w1", "w2"}

Impls == {"aas", "wsgi"}

\* Python's None
None == "None"

\* Submitted byte sequences.  CfgA and CfgB stand for two well-formed
\* architecture documents, CfgBadUtf8 for bytes that are not UTF-8 (b'cfg\xff'),
\* CfgBadYaml for text that is not YAML, CfgBadArch for YAML the builder rejects.
CfgA == "cfgA"

CfgB == "cfgB"

CfgBadUtf8 == "cfg<ff>"

CfgBadYaml == "cfg: ["

CfgBadArch == "cfg: {}"

\* A well-formed document whose one certificate is labelled "x_config" (the
\* labels of a document's certificates are its author's choice).  It is
\* submitted in the runs that exercise the key layout only.
CfgX == "cfgX"

GoodConfigs == {CfgA, CfgB}

BadConfigs == {CfgBadUtf8, CfgBadYaml, CfgBadArch}

Configs == GoodConfigs \cup BadConfigs

\* hashlib.sha1(config).digest().hex(): lowercase hex, tabulated on Configs
\* (the digests of b'cfgA', b'cfgB', b'cfg\xff', b'cfg: [', b'cfg: {}'); no two
\* of the documents collide
Sha1Hex(config) ==
    CASE config = CfgA -> "bf3005ee48536821b87645f3f46d6f427e3572f1"
      [] config = CfgB -> "add8f21be3beb29437c2938be0c06528bc162739"
      [] config = CfgBadUtf8 -> "a55939ccf2b580bbab10975950a67283f5c57324"
      [] config = CfgBadYaml -> "0524411380c5d17716c0ccd1fc362068e31a0636"
      [] config = CfgBadArch -> "5bf58a74dd5e033365fc332a60ea638c52ea4788"
      [] config = CfgX -> "5a9513d1e33f7f9c63d940b59379ce7e06d4c756"

\* str(uuid.uuid4()): the n-th label drawn; every draw is a fresh label
RECURSIVE Uuid4(_)
Uuid4(n) == IF n = 0 THEN "uuid4" ELSE Uuid4(n - 1) \o "-x"

\* certomancer_config.pki_archs: the statically configured architectures.
\* The operator chose one label freely; the other happens to be the digest of
\* a document that clients also submit.
StaticLabels == {"testing-ca", Sha1Hex(CfgA)}

\* the labels resolve is called with: the static ones, the digests of the
\* well-formed documents and the first uuid4 (in an aas deployment the uuid4,
\* in a wsgi deployment the second digest, is a label nobody registered)
ResolveLabels ==
    StaticLabels \cup {Sha1Hex(c) : c \in GoodConfigs} \cup {Uuid4(1)}

\* The certificate labels an architecture document declares, in the order
\* the response bundles them
CertsOf(config) ==
    CASE config = CfgA -> <<"ca">>
      [] config = CfgB -> <<"ca">>
      [] config = CfgX -> <<"x_config">>
      [] OTHER -> <<>>

CertLabels == {"ca"}

---------------------------------------------------------------------------
(* Key layout *)

\* a config key that forgets the architecture: a mutant of
\* fmt_arch_config_name
FmtArchConfigNameFixed(arch) == "certomancer_config"

fmt_arch_config_name(arch) == "certomancer_" \o arch \o "_config"

\* A cert key that forgets the architecture: a mutant of _fmt_item_name
FmtItemNameNoArch(arch, item) == "certomancer__cert_" \o item

_fmt_item_name(arch, item) == "certomancer_" \o arch \o "_cert_" \o item

---------------------------------------------------------------------------
(* The external builder, as far as the core depends on it *)

\* x509.Certificate objects: the certificate the builder derives for label
\* `item` of the architecture described by `config`.  The builder is
\* certomancer's, outside this repository; that derivation is a function of
\* the document and the label is the specification's statement about it
\* ("the same key is only ever re-derived to the same bytes, since the
\* architecture is immutable once built").
Derive(config, item) == [kind |-> "cert", issuedFrom |-> config, subject |-> item]

AllCerts == {Derive(c, i) : c \in GoodConfigs, i \in CertLabels}

\* value.dump(): the DER bytes of a certificate
Dump(cert) == "der(" \o cert.issuedFrom \o "/" \o cert.subject \o ")"

\* the certificate of the document CfgX
LayoutCerts == {Derive(CfgX, "x_config")}

\* x509.Certificate.load(bytes)
Load(bytes) == CHOOSE c \in AllCerts \cup LayoutCerts : Dump(c) = bytes

\* config.decode('utf8'); yaml.safe_load; PKIArchitecture.build_architecture:
\* the exception the chain raises on these bytes, None when it raises none.
\* The DER encoding of a certificate (30 82 ...) is not UTF-8.
LoadException(config) ==
    CASE config = CfgBadUtf8 -> "UnicodeDecodeError"
      [] config \in {Dump(c) : c \in AllCerts \cup LayoutCerts}
            -> "UnicodeDecodeError"
      [] config = CfgBadYaml -> "YAMLError"
      [] config = CfgBadArch -> "ConfigurationError"
      [] OTHER -> None

\* RedisBackedArchStore.load_from_yaml: the built architecture (it owns a fresh
\* RedisBackedCertCache scoped to `arch`, whose local layer starts empty), or
\* the exception raised
load_from_yaml(arch, config) ==
    IF LoadException(config) # None
    THEN [exc |-> LoadException(config), label |-> arch, cfg |-> config,
          todo |-> <<>>, cache |-> <<>>, bundle |-> {}]
    ELSE [exc |-> None, label |-> arch, cfg |-> config,
          todo |-> CertsOf(config), cache |-> <<>>, bundle |-> {}]

\* request-local state of a worker that holds no architecture
NoArch ==
    [exc |-> None, label |-> None, cfg |-> None, todo |-> <<>>,
     cache |-> <<>>, bundle |-> {}]

---------------------------------------------------------------------------
(* Redis *)

\* redis.get(key): the value, or None
RedisGet(st, key) == IF key \in DOMAIN st THEN st[key].val ELSE None

\* SET key value EX ttl NX: a mutant of RedisSet that keeps an existing entry
RedisSetNX(st, key, val, ttl) ==
    IF key \in DOMAIN st THEN st
    ELSE [k \in DOMAIN st \cup {key} |->
             IF k = key THEN [val |-> val, ttl |-> ttl] ELSE st[k]]

\* SET key value KEEPTTL: a mutant of RedisSet that overwrites the value of an
\* existing entry and leaves its expiry as it was
RedisSetKeepTtl(st, key, val, ttl) ==
    [k \in DOMAIN st \cup {key} |->
        IF k = key
        THEN [val |-> val, ttl |-> IF key \in DOMAIN st THEN st[key].ttl ELSE ttl]
        ELSE st[k]]

\* redis.set(key, value, ex=ttl): overwrites, and (re)sets the expiry
RedisSet(st, key, val, ttl) ==
    [k \in DOMAIN st \cup {key} |->
        IF k = key THEN [val |-> val, ttl |-> ttl] ELSE st[k]]

\* one tick passes: entries with one tick left expire
Expire(st) ==
    [k \in {x \in DOMAIN st : st[x].ttl > 1} |->
        [val |-> st[k].val, ttl |-> st[k].ttl - 1]]

\* a finite map extended or updated at one point
MapPut(f, k, v) == [x \in DOMAIN f \cup {k} |-> IF x = k THEN v ELSE f[x]]

---------------------------------------------------------------------------
(* Responses and log entries *)

\* a request served with an architecture: its label, the bytes it was built
\* from, and the certificates handed out
Ok(arch) ==
    [status |-> "OK", exc |-> None, arch |-> arch.label, built |-> arch.cfg,
     bundle |-> arch.bundle]

\* an exception that leaves the handler unhandled (a server error)
Fault(exc) ==
    [status |-> "Fault", exc |-> exc, arch |-> None, built |-> None,
     bundle |-> {}]

\* a werkzeug HTTPException raised by the core: NotFound, BadRequest
HttpError(status, reason) ==
    [status |-> status, exc |-> reason, arch |-> None, built |-> None,
     bundle |-> {}]

\* the lookup returned None instead of an architecture
NoneResult ==
    [status |-> "None", exc |-> None, arch |-> None, built |-> None,
     bundle |-> {}]

NoResp ==
    [status |-> "none", exc |-> None, arch |-> None, built |-> None,
     bundle |-> {}]

NoReq == [op |-> "none", arg |-> None]

\* the architecture object of a statically configured label
StaticArch(label) ==
    [exc |-> None, label |-> label, cfg |-> "static:" \o label, todo |-> <<>>,
     cache |-> <<>>,
     bundle |-> {<<i, Derive("static:" \o label, i)>> : i \in CertLabels}]

\* one redis call: ok is FALSE when the transport failed; hit tells whether
\* the key was present when the call was made
Call(op, key, st, up) ==
    [op |-> op, key |-> key, ok |-> up, hit |-> up /\ key \in DOMAIN st]

---------------------------------------------------------------------------
(* Settings *)

\* config entries written with the certificates' TTL: a mutant of ArchTtlOf
ArchTtlOfCerts(im) == CertTTL

\* settings.redis_arch_ttl (aas); settings.redis_key_ttl_seconds (wsgi), which
\* is one TTL for both kinds of entry
ArchTtlOf(im) == IF im = "aas" THEN ArchTTL ELSE CertTTL

\* certificate caches set up with the architectures' TTL: a mutant of
\* CertTtlOf
CertTtlOfArchs(im) == ArchTTL

\* settings.redis_cert_ttl (aas); settings.redis_key_ttl_seconds (wsgi)
CertTtlOf(im) == CertTTL

---------------------------------------------------------------------------
(* RedisBackedCertCache *)

\* a lookup that takes a failed redis call for a miss: a mutant of
\* CertCacheGetitem
CertCacheGetitemSwallow(cache, st, up, arch, item) ==
    LET key == _fmt_item_name(arch, item) IN
    IF item \in DOMAIN cache
    THEN [exc |-> None, cert |-> cache[item], cache |-> cache, calls |-> <<>>]
    ELSE IF ~up \/ RedisGet(st, key) = None
    THEN [exc |-> "KeyError", cert |-> None, cache |-> cache,
          calls |-> <<Call("GET", key, st, up)>>]
    ELSE [exc |-> None, cert |-> Load(RedisGet(st, key)),
          cache |-> MapPut(cache, item, Load(RedisGet(st, key))),
          calls |-> <<Call("GET", key, st, up)>>]

\* __getitem__: the local layer first (the dict of aas, the lru_cache of wsgi;
\* the model never holds as many labels as the lru's capacity), then redis.
\* The result names the exception raised (None when none), the certificate,
\* the local layer afterwards and the redis calls made.
CertCacheGetitem(cache, st, up, arch, item) ==
    LET key == _fmt_item_name(arch, item) IN
    IF item \in DOMAIN cache
    THEN [exc |-> None, cert |-> cache[item], cache |-> cache, calls |-> <<>>]
    ELSE IF ~up
    THEN [exc |-> "ConnectionError", cert |-> None, cache |-> cache,
          calls |-> <<Call("GET", key, st, up)>>]
    ELSE IF RedisGet(st, key) = None
    THEN [exc |-> "KeyError", cert |-> None, cache |-> cache,
          calls |-> <<Call("GET", key, st, up)>>]
    ELSE [exc |-> None, cert |-> Load(RedisGet(st, key)),
          cache |-> MapPut(cache, item, Load(RedisGet(st, key))),
          calls |-> <<Call("GET", key, st, up)>>]

\* a put that fills the local layer before it writes redis: a mutant of
\* CertCacheSetitem
CertCacheSetitemLocalFirst(im, cache, st, up, arch, item, value, ttl) ==
    LET key == _fmt_item_name(arch, item)
        filled == IF im = "aas" THEN MapPut(cache, item, value) ELSE cache
    IN
    IF value.kind # "cert"
    THEN [exc |-> "TypeError", store |-> st, cache |-> cache, calls |-> <<>>]
    ELSE IF ~up
    THEN [exc |-> "ConnectionError", store |-> st, cache |-> filled,
          calls |-> <<Call("SET", key, st, up)>>]
    ELSE [exc |-> None, store |-> RedisSet(st, key, Dump(value), ttl),
          cache |-> filled, calls |-> <<Call("SET", key, st, up)>>]

\* __setitem__: type guard, redis SET with the cache's ttl, then (aas only) the
\* local layer.  The result names the exception, the store and the local layer
\* afterwards and the redis calls made.
CertCacheSetitem(im, cache, st, up, arch, item, value, ttl) ==
    LET key == _fmt_item_name(arch, item) IN
    IF value.kind # "cert"
    THEN [exc |-> "TypeError", store |-> st, cache |-> cache, calls |-> <<>>]
    ELSE IF ~up
    THEN [exc |-> "ConnectionError", store |-> st, cache |-> cache,
          calls |-> <<Call("SET", key, st, up)>>]
    ELSE [exc |-> None, store |-> RedisSet(st, key, Dump(value), ttl),
          cache |-> IF im = "aas" THEN MapPut(cache, item, value) ELSE cache,
          calls |-> <<Call("SET", key, st, up)>>]

---------------------------------------------------------------------------
(* RedisBackedArchStore *)

\* a label that does not depend on the submitted bytes (the digest of a buffer
\* that is always the same): a mutant of ArchLabelFor
ArchLabelIgnoringBytes(im, config, n) ==
    IF im = "aas" THEN Sha1Hex(CfgB) ELSE Uuid4(n + 1)

\* register_new_architecture's label: the hex SHA-1 of the bytes (aas), a
\* fresh uuid4 (wsgi; n labels were drawn before)
ArchLabelFor(im, config, n) ==
    IF im = "aas" THEN Sha1Hex(config) ELSE Uuid4(n + 1)

\* the except clause around load_from_yaml in register_new_architecture:
\* whether the exception is turned into BadRequest
RegisterCatches(im, exc) ==
    IF im = "aas" THEN exc \in {"YAMLError", "ConfigurationError"}
    ELSE exc = "YAMLError"

\* what the BadRequest raised for a caught exception carries: the exception's
\* text (aas: raise BadRequest(str(e))), nothing but werkzeug's default
\* description (wsgi: raise BadRequest())
BadRequestReason(im, exc) == IF im = "aas" THEN exc ELSE None

\* a lookup that forgets the predefined architectures: a mutant of IsStatic
NeverStatic(label) == FALSE

\* "try: return self.architectures[item]": the predefined architectures are
\* looked up first
IsStatic(label) == label \in StaticLabels

\* a lookup that builds whatever redis answers: a mutant of Missing
NeverMissing(bytes) == FALSE

\* "if config_from_redis is None: raise NotFound()"
Missing(bytes) == bytes = None

\* what RedisBackedArchStore._get hands back for a dynamic label once it has
\* rebuilt it: the architecture (aas returns load_from_yaml's result), None
\* (wsgi calls load_from_yaml and falls off the end of the function)
ReturnsBuilt(im) == im = "aas"

\* the step finished no request
NoOut ==
    [worker |-> None, op |-> "none", arg |-> None, resp |-> NoResp,
     log |-> <<>>]

Ready(w) == pc[w] = "idle"

\* worker w's request (op, arg) ends with response r after the calls `calls`
End(w, op, arg, r, calls) ==
    /\ pc' = [pc EXCEPT ![w] = "idle"]
    /\ req' = [req EXCEPT ![w] = NoReq]
    /\ cur' = [cur EXCEPT ![w] = NoArch]
    /\ log' = [log EXCEPT ![w] = <<>>]
    /\ out' = [worker |-> w, op |-> op, arg |-> arg, resp |-> r, log |-> calls]
    /\ regSeen' =
          IF op = "register" /\ r.status = "OK" /\ arg \notin DOMAIN regSeen
          THEN MapPut(regSeen, arg,
                      [arch |-> r.arch, bundle |-> r.bundle, worker |-> w])
          ELSE regSeen

\* worker w's request (op, arg) goes on at `at`, holding architecture a
Continue(w, op, arg, at, a, calls) ==
    /\ pc' = [pc EXCEPT ![w] = at]
    /\ req' = [req EXCEPT ![w] = [op |-> op, arg |-> arg]]
    /\ cur' = [cur EXCEPT ![w] = a]
    /\ log' = [log EXCEPT ![w] = calls]
    /\ out' = NoOut
    /\ regSeen' = regSeen

---------------------------------------------------------------------------
(* Requests *)

\* a registration that writes the config entry before it builds the
\* architecture: a mutant of Register
RegisterSetFirst(w, config) ==
    /\ Ready(w)
    /\ impl = "wsgi" => nextUuid < MaxUuid
    /\ LET arch_label == ArchLabelFor(impl, config, nextUuid)
           arch == load_from_yaml(arch_label, config)
           key == fmt_arch_config_name(arch_label)
           set == <<Call("SET", key, store, storeUp)>>
       IN
       /\ nextUuid' = IF impl = "wsgi" THEN nextUuid + 1 ELSE nextUuid
       /\ IF ~storeUp
          THEN /\ End(w, "register", config, Fault("ConnectionError"), set)
               /\ store' = store
          ELSE /\ store' = RedisSet(store, key, config, ArchTtlOf(impl))
               /\ IF arch.exc # None
                  THEN End(w, "register", config,
                           IF RegisterCatches(impl, arch.exc)
                           THEN HttpError("BadRequest",
                                          BadRequestReason(impl, arch.exc))
                           ELSE Fault(arch.exc), set)
                  ELSE Continue(w, "register", config, "certs", arch, set)
    /\ UNCHANGED <<impl, storeUp, archLru, hist>>

\* RedisBackedArchStore.__call__ on POST /: register_new_architecture(config)
\* up to and including its redis SET.  The response is then bundled
\* certificate by certificate (CertGet, CertPut).
Register(w, config) ==
    /\ Ready(w)
    /\ impl = "wsgi" => nextUuid < MaxUuid
    /\ LET arch_label == ArchLabelFor(impl, config, nextUuid)
           arch == load_from_yaml(arch_label, config)
           key == fmt_arch_config_name(arch_label)
           set == <<Call("SET", key, store, storeUp)>>
       IN
       /\ nextUuid' = IF impl = "wsgi" THEN nextUuid + 1 ELSE nextUuid
       /\ IF arch.exc # None
          THEN /\ End(w, "register", config,
                      IF RegisterCatches(impl, arch.exc)
                      THEN HttpError("BadRequest",
                                     BadRequestReason(impl, arch.exc))
                      ELSE Fault(arch.exc), <<>>)
               /\ store' = store
          ELSE IF ~storeUp
          THEN /\ End(w, "register", config, Fault("ConnectionError"), set)
               /\ store' = store
          ELSE /\ store' = RedisSet(store, key, config, ArchTtlOf(impl))
               /\ Continue(w, "register", config, "certs", arch, set)
    /\ UNCHANGED <<impl, storeUp, archLru, hist>>

\* Animator -> RedisBackedArchStore.__getitem__(label), up to and including
\* its redis GET and the rebuild.  The serving surface then hands out the
\* architecture's certificates through its certificate cache (CertGet,
\* CertPut), as the registration response does.
Resolve(w, label) ==
    /\ Ready(w)
    /\ LET key == fmt_arch_config_name(label)
           get == <<Call("GET", key, store, storeUp)>>
           bytes == RedisGet(store, key)
           arch == load_from_yaml(label, bytes)
           memo(v) ==
               archLru' = IF impl = "wsgi"
                          THEN [archLru EXCEPT ![w] = MapPut(archLru[w], label, v)]
                          ELSE archLru
       IN
       IF impl = "wsgi" /\ label \in DOMAIN archLru[w]
       THEN /\ End(w, "resolve", label,
                   IF archLru[w][label] = None THEN NoneResult
                   ELSE Ok(StaticArch(label)), <<>>)
            /\ archLru' = archLru
       ELSE IF IsStatic(label)
       THEN End(w, "resolve", label, Ok(StaticArch(label)), <<>>)
               /\ memo("static")
       ELSE IF ~storeUp
       THEN End(w, "resolve", label, Fault("ConnectionError"), get)
               /\ archLru' = archLru
       ELSE IF Missing(bytes)
       THEN End(w, "resolve", label, HttpError("NotFound", None), get)
               /\ archLru' = archLru
       ELSE IF arch.exc # None
       THEN End(w, "resolve", label, Fault(arch.exc), get)
               /\ archLru' = archLru
       ELSE IF ReturnsBuilt(impl) /\ arch.todo = <<>>
       THEN End(w, "resolve", label, Ok(arch), get) /\ memo(label)
       ELSE IF ReturnsBuilt(impl)
       THEN Continue(w, "resolve", label, "certs", arch, get) /\ memo(label)
       ELSE End(w, "resolve", label, NoneResult, get) /\ memo(None)
    /\ UNCHANGED <<impl, store, storeUp, nextUuid, hist>>

\* pki_arch.get_cert(label) for the next certificate of the response: the
\* builder asks the certificate cache; KeyError makes it derive the
\* certificate (CertPut), any other exception ends the request
CertGet(w) ==
    /\ pc[w] = "certs"
    /\ LET a == cur[w]
           item == Head(a.todo)
           got == CertCacheGetitem(a.cache, store, storeUp, a.label, item)
           calls == log[w] \o got.calls
           a2 == [a EXCEPT !.cache = got.cache, !.todo = Tail(a.todo),
                           !.bundle = a.bundle \cup {<<item, got.cert>>}]
       IN
       IF got.exc = "KeyError"
       THEN Continue(w, req[w].op, req[w].arg, "derive", a, calls)
       ELSE IF got.exc # None
       THEN End(w, req[w].op, req[w].arg, Fault(got.exc), calls)
       ELSE IF a2.todo = <<>>
       THEN End(w, req[w].op, req[w].arg, Ok(a2), calls)
       ELSE Continue(w, req[w].op, req[w].arg, "certs", a2, calls)
    /\ UNCHANGED <<impl, store, storeUp, archLru, nextUuid, hist>>

\* the builder derives the certificate it missed and stores it:
\* cert_cache[label] = cert
CertPut(w) ==
    /\ pc[w] = "derive"
    /\ LET a == cur[w]
           item == Head(a.todo)
           cert == Derive(a.cfg, item)
           put == CertCacheSetitem(impl, a.cache, store, storeUp, a.label,
                                   item, cert, CertTtlOf(impl))
           calls == log[w] \o put.calls
           a2 == [a EXCEPT !.cache = put.cache, !.todo = Tail(a.todo),
                           !.bundle = a.bundle \cup {<<item, cert>>}]
       IN
       /\ store' = put.store
       /\ IF put.exc # None
          THEN End(w, req[w].op, req[w].arg, Fault(put.exc), calls)
          ELSE IF a2.todo = <<>>
          THEN End(w, req[w].op, req[w].arg, Ok(a2), calls)
          ELSE Continue(w, req[w].op, req[w].arg, "certs", a2, calls)
    /\ UNCHANGED <<impl, storeUp, archLru, nextUuid, hist>>

\* one tick of time passes in redis
Tick ==
    /\ store' = Expire(store)
    /\ out' = NoOut
    /\ UNCHANGED <<impl, storeUp, pc, req, cur, log, archLru, nextUuid, regSeen,
                   hist>>

\* redis becomes unreachable, or reachable again
ToggleStore ==
    /\ storeUp' = ~storeUp
    /\ out' = NoOut
    /\ UNCHANGED <<impl, store, pc, req, cur, log, archLru, nextUuid, regSeen,
                   hist>>

\* the history of a certificate cache nobody has used: what the most recent
\* successful get or put per instance and label returned or wrote, the labels
\* ever written to redis, and the put that came immediately before the last
\* get (none)
NoHist ==
    [last |-> [w \in Workers |-> <<>>], written |-> {},
     after |-> [put |-> FALSE, bundle |-> {}]]

Init ==
    /\ impl \in Impls
    /\ store = <<>>
    /\ storeUp = TRUE
    /\ pc = [w \in Workers |-> "idle"]
    /\ req = [w \in Workers |-> NoReq]
    /\ cur = [w \in Workers |-> NoArch]
    /\ log = [w \in Workers |-> <<>>]
    /\ out = NoOut
    /\ archLru = [w \in Workers |-> <<>>]
    /\ nextUuid = 0
    /\ regSeen = <<>>
    /\ hist = NoHist

Next ==
    \/ \E w \in Workers, config \in Configs : Register(w, config)
    \/ \E w \in Workers, label \in ResolveLabels : Resolve(w, label)
    \/ \E w \in Workers : CertGet(w)
    \/ \E w \in Workers : CertPut(w)
    \/ Tick
    \/ ToggleStore

Spec == Init /\ [][Next]_vars

\* a deployment of certomancer_aas.py
InitAas == Init /\ impl = "aas"

SpecAas == InitAas /\ [][Next]_vars

---------------------------------------------------------------------------
(* A RedisBackedCertCache driven directly: any caller, any label, any value.
   Each worker holds one instance; both are scoped to the same architecture,
   so they share their redis keys. *)

\* the labels the cache is asked for
CacheItems == {"ca", "leaf"}

\* a value that is no x509.Certificate
NotACert == [kind |-> "str", issuedFrom |-> None, subject |-> None]

\* the values put into the cache under a label: "ca" is written with any
\* value, "leaf" only ever with one certificate (write-once use)
CacheValues(item) ==
    IF item = "ca" THEN AllCerts \cup {NotACert} ELSE {Derive(CfgB, "ca")}

\* the architecture the instances are scoped to
CacheArch == Sha1Hex(CfgB)

\* the outcome of a cache call, in the shape of a response
CacheResult(w, exc, item, value) ==
    IF exc # None THEN Fault(exc)
    ELSE [status |-> "OK", exc |-> None, arch |-> cur[w].label,
          built |-> None, bundle |-> {<<item, value>>}]

\* cache[item] = value on worker w's instance
CachePut(w, item, value) ==
    /\ LET put == CertCacheSetitem(impl, cur[w].cache, store, storeUp,
                                   cur[w].label, item, value, CertTtlOf(impl))
       IN
       /\ store' = put.store
       /\ cur' = [cur EXCEPT ![w].cache = put.cache]
       /\ out' = [worker |-> w, op |-> "put", arg |-> item,
                  resp |-> CacheResult(w, put.exc, item, value),
                  log |-> put.calls]
       /\ hist' = [hist EXCEPT
                      !.written = IF put.exc = None THEN @ \cup {item} ELSE @,
                      !.last[w] = IF put.exc = None
                                  THEN MapPut(@, item, value) ELSE @,
                      !.after = NoHist.after]
    /\ UNCHANGED <<impl, storeUp, pc, req, log, archLru, nextUuid, regSeen>>

\* cache[item] on worker w's instance
CacheGet(w, item) ==
    /\ LET got == CertCacheGetitem(cur[w].cache, store, storeUp, cur[w].label,
                                   item)
           justPut == /\ out.op = "put" /\ out.worker = w /\ out.arg = item
                      /\ out.resp.status = "OK"
       IN
       /\ cur' = [cur EXCEPT ![w].cache = got.cache]
       /\ out' = [worker |-> w, op |-> "get", arg |-> item,
                  resp |-> CacheResult(w, got.exc, item, got.cert),
                  log |-> got.calls]
       /\ hist' = [hist EXCEPT
                      !.last[w] = IF got.exc = None
                                  THEN MapPut(@, item, got.cert) ELSE @,
                      !.after =
                          IF justPut
                          THEN [put |-> TRUE, bundle |-> out.resp.bundle]
                          ELSE NoHist.after]
    /\ UNCHANGED <<impl, store, storeUp, pc, req, log, archLru, nextUuid,
                   regSeen>>

InitCache ==
    /\ impl \in Impls
    /\ store = <<>>
    /\ storeUp = TRUE
    /\ pc = [w \in Workers |-> "idle"]
    /\ req = [w \in Workers |-> NoReq]
    /\ cur = [w \in Workers |-> [NoArch EXCEPT !.label = CacheArch]]
    /\ log = [w \in Workers |-> <<>>]
    /\ out = NoOut
    /\ archLru = [w \in Workers |-> <<>>]
    /\ nextUuid = 0
    /\ regSeen = <<>>
    /\ hist = NoHist

NextCache ==
    \/ \E w \in Workers, item \in CacheItems :
          \E value \in CacheValues(item) : CachePut(w, item, value)
    \/ \E w \in Workers, item \in CacheItems : CacheGet(w, item)
    \/ Tick
    \/ ToggleStore

SpecCache == InitCache /\ [][NextCache]_vars


---------------------------------------------------------------------------
(* The WSGI entry point: DispatcherMiddleware(animator, {'/config': arch_store})
   in front of RedisBackedArchStore.__call__.  A request path is the sequence
   of its segments: "/config" is <<"config">>, "/config/" is <<"config", "">>,
   "/config/x" is <<"config", "x">>. *)

\* the one mount point, '/config'
Mount == <<"config">>

Methods == {"GET", "POST"}

\* the documents posted in the runs of the entry point
DispatchConfigs == {CfgB, CfgBadYaml}

\* the request paths of those runs: the mount point with and without a
\* trailing slash, a path below it, a path that merely starts with the same
\* letters, and the routes of a static and of a dynamic architecture
Paths ==
    {<<"config">>, <<"config", "">>, <<"config", "x">>, <<"configx">>,
     <<"testing-ca">>, <<Sha1Hex(CfgB), "certs">>}

\* DispatcherMiddleware.__call__: the longest leading part of the path that is
\* a mount point selects the application, which is handed the rest of the
\* path as PATH_INFO; without such a part the default application (the
\* animator) gets the whole path
RECURSIVE DispatcherMiddleware(_, _)
DispatcherMiddleware(script, path_info) ==
    IF script = Mount
    THEN [app |-> "arch_store", path_info |-> path_info]
    ELSE IF script = <<>>
    THEN [app |-> "animator", path_info |-> path_info]
    ELSE DispatcherMiddleware(SubSeq(script, 1, Len(script) - 1),
                              <<script[Len(script)]>> \o path_info)

\* Request.path: '/' followed by PATH_INFO without its leading slashes; the
\* empty sequence stands for '/'
RECURSIVE RequestPath(_)
RequestPath(path_info) ==
    IF path_info = <<>> THEN <<>>
    ELSE IF Head(path_info) = "" THEN RequestPath(Tail(path_info))
    ELSE path_info

\* an endpoint that looks at the method before the path: a mutant of
\* ArchStoreCall
ArchStoreCallMethodFirst(path_info, method) ==
    IF method # "POST" THEN "MethodNotAllowed"
    ELSE IF RequestPath(path_info) # <<>> THEN "NotFound"
    ELSE "register"

\* the checks at the head of RedisBackedArchStore.__call__: the exception
\* raised, or "register" when the body is read and registered
ArchStoreCall(path_info, method) ==
    IF RequestPath(path_info) # <<>> THEN "NotFound"
    ELSE IF method # "POST" THEN "MethodNotAllowed"
    ELSE "register"

\* CertomancerAsAService.__call__: one HTTP request on worker w.  The
\* animator's routes start with the label of the architecture they serve,
\* which it looks up in the architecture store.
HandleRequest(w, path, method, config) ==
    LET d == DispatcherMiddleware(path, <<>>)
        verdict == ArchStoreCall(d.path_info, method)
    IN
    IF d.app = "animator" THEN Resolve(w, Head(path))
    ELSE IF verdict = "register" THEN Register(w, config)
    ELSE /\ Ready(w)
         /\ End(w, "config", None, HttpError(verdict, None), <<>>)
         /\ UNCHANGED <<impl, store, storeUp, archLru, nextUuid, hist>>

NextDispatch ==
    \/ \E w \in Workers, path \in Paths, method \in Methods :
          \E config \in DispatchConfigs : HandleRequest(w, path, method, config)
    \/ \E w \in Workers : CertGet(w)
    \/ \E w \in Workers : CertPut(w)
    \/ Tick

\* a deployment of certomancer_aas.py behind its entry point
SpecDispatch == InitAas /\ [][NextDispatch]_vars

---------------------------------------------------------------------------
(* Runs that exercise the key layout: the document CfgX is registered, and
   the serving surface is asked for its label and for a label that continues
   it with "_cert_x" (the label is a segment of the request path, any text
   without a slash). *)

LayoutLabels == {Sha1Hex(CfgX), Sha1Hex(CfgX) \o "_cert_x"}

NextLayout ==
    \/ \E w \in Workers : Register(w, CfgX)
    \/ \E w \in Workers, label \in LayoutLabels : Resolve(w, label)
    \/ \E w \in Workers : CertGet(w)
    \/ \E w \in Workers : CertPut(w)
    \/ Tick

SpecLayout == InitAas /\ [][NextLayout]_vars

---------------------------------------------------------------------------
(* Properties *)

\* the step just finished a request of kind op
Finished(op) == out.op = op

\* every redis call of the finished request went through
AllCallsOk == \A i \in 1..Len(out.log) : out.log[i].ok

\* C1, as claimed: a config entry under a digest-derived label holds the bytes
\* with that digest, and every resolve of a label that succeeds while the
\* label's entry is alive yields an architecture built from the entry's bytes.
C1_ResolveYieldsStoredBytes ==
    /\ \A c \in Configs :
          fmt_arch_config_name(Sha1Hex(c)) \in DOMAIN store
              => store[fmt_arch_config_name(Sha1Hex(c))].val = c
    /\ (Finished("resolve") /\ out.resp.status = "OK"
           /\ fmt_arch_config_name(out.arg) \in DOMAIN store)
          => out.resp.built = store[fmt_arch_config_name(out.arg)].val

\* C1, amended: a config entry under a digest-derived label holds the bytes
\* with that digest, and every resolve that succeeds for a label outside the
\* static set yields an architecture built from the bytes whose digest the
\* label is (the bytes of the label's entry, whenever that entry is alive).
C1_DynamicResolveYieldsStoredBytes ==
    /\ \A c \in Configs :
          fmt_arch_config_name(Sha1Hex(c)) \in DOMAIN store
              => store[fmt_arch_config_name(Sha1Hex(c))].val = c
    /\ (Finished("resolve") /\ out.resp.status = "OK"
           /\ out.arg \notin StaticLabels)
          => /\ out.resp.built \in Configs
             /\ Sha1Hex(out.resp.built) = out.arg
             /\ fmt_arch_config_name(out.arg) \in DOMAIN store
                   => out.resp.built = store[fmt_arch_config_name(out.arg)].val

\* C1 witness: a resolve of a dynamic label succeeded while its entry is alive
C1_Witness ==
    /\ Finished("resolve")
    /\ out.resp.status = "OK"
    /\ out.arg \notin StaticLabels
    /\ fmt_arch_config_name(out.arg) \in DOMAIN store

\* C2: every successful registration of a document reports the label and
\* the certificate bundle that the first successful registration of the same
\* bytes reported, whichever worker handled either.
C2_SameBytesSameLabelAndBundle ==
    (Finished("register") /\ out.resp.status = "OK")
        => /\ out.arg \in DOMAIN regSeen
           /\ regSeen[out.arg].arch = out.resp.arch
           /\ regSeen[out.arg].bundle = out.resp.bundle

\* C3: the step in which register_new_architecture succeeds leaves the config
\* entry of its label holding the submitted bytes with the full architecture
\* TTL, whatever the entry was before.
C3_RegisterSetsFullTtl ==
    [][\A w \in Workers :
          (pc[w] = "idle" /\ pc'[w] = "certs" /\ req'[w].op = "register")
              => /\ fmt_arch_config_name(cur'[w].label) \in DOMAIN store'
                 /\ store'[fmt_arch_config_name(cur'[w].label)]
                       = [val |-> req'[w].arg, ttl |-> ArchTtlOf(impl)]]_vars

\* C3 witness: a document registered before is registered again while its
\* entry is still there, and the entry has the full TTL again
C3_Witness ==
    \E w \in Workers :
        /\ pc[w] = "certs"
        /\ req[w].op = "register"
        /\ req[w].arg \in DOMAIN regSeen
        /\ log[w] = <<[op |-> "SET", key |-> fmt_arch_config_name(cur[w].label),
                       ok |-> TRUE, hit |-> TRUE]>>
        /\ store[fmt_arch_config_name(cur[w].label)].ttl = ArchTtlOf(impl)
        /\ ArchTtlOf(impl) > 1

\* C4: a resolve of a non-static label that another worker registered, whose
\* redis calls all went through and whose lookup found the config entry
\* alive, returns the architecture built from the registered bytes.
C4_ResolveOnOtherWorkerReturnsBuilt ==
    (/\ Finished("resolve")
     /\ out.arg \notin StaticLabels
     /\ \E c \in DOMAIN regSeen :
           regSeen[c].arch = out.arg /\ regSeen[c].worker # out.worker
     /\ out.log # <<>>
     /\ out.log[1] = [op |-> "GET", key |-> fmt_arch_config_name(out.arg),
                      ok |-> TRUE, hit |-> TRUE]
     /\ AllCallsOk)
        => /\ out.resp.status = "OK"
           /\ out.resp.arch = out.arg
           /\ \E c \in DOMAIN regSeen :
                 regSeen[c].arch = out.arg /\ out.resp.built = c

\* C5: a resolve of a non-static label whose lookup reached redis and found no
\* live config entry ends with NotFound, and that one GET is the only redis
\* call it made.
C5_UnknownLabelNotFound ==
    (/\ Finished("resolve")
     /\ out.arg \notin StaticLabels
     /\ out.log # <<>>
     /\ out.log[1].ok
     /\ ~out.log[1].hit)
        => /\ out.resp.status = "NotFound"
           /\ out.log = <<[op |-> "GET", key |-> fmt_arch_config_name(out.arg),
                           ok |-> TRUE, hit |-> FALSE]>>

\* C5 witness: a label whose entry has expired is resolved
C5_Witness ==
    /\ Finished("resolve")
    /\ out.resp.status = "NotFound"
    /\ \E c \in DOMAIN regSeen : regSeen[c].arch = out.arg

\* C6: a resolve of a static label returns the static architecture and makes
\* no redis call.
C6_StaticFirst ==
    (Finished("resolve") /\ out.arg \in StaticLabels)
        => /\ out.resp = Ok(StaticArch(out.arg))
           /\ out.log = <<>>

\* C6 witness: a static label is resolved while redis is unreachable and
\* holds a dynamic config entry under the same label
C6_Witness ==
    /\ Finished("resolve")
    /\ out.arg \in StaticLabels
    /\ out.resp.status = "OK"
    /\ ~storeUp
    /\ fmt_arch_config_name(out.arg) \in DOMAIN store

\* C8: the bytes under a certificate key are a function of the key (the DER of
\* the certificate derived for that label from the document whose digest the
\* architecture label is), and a worker's local mapping holds nothing else.
C8_CertEntriesWriteOnce ==
    \A c \in GoodConfigs, i \in CertLabels :
        /\ _fmt_item_name(Sha1Hex(c), i) \in DOMAIN store
              => store[_fmt_item_name(Sha1Hex(c), i)].val = Dump(Derive(c, i))
        /\ \A w \in Workers :
              (cur[w].label = Sha1Hex(c) /\ i \in DOMAIN cur[w].cache)
                  => cur[w].cache[i] = Derive(c, i)

\* C8 witness: a worker that missed and derived has just put a certificate
\* over the entry another worker put in the meantime
C8_Witness ==
    /\ out.resp.status = "OK"
    /\ Len(out.log) = 3
    /\ out.log[2].op = "GET" /\ out.log[2].ok /\ ~out.log[2].hit
    /\ out.log[3].op = "SET" /\ out.log[3].ok /\ out.log[3].hit
    /\ out.log[3].key = out.log[2].key

\* C9: every registration of bytes that fail to decode, to parse or to pass
\* the builder's validation ends with BadRequest.
C9_BadConfigIsBadRequest ==
    (Finished("register") /\ out.arg \in BadConfigs)
        => out.resp.status = "BadRequest"

\* C10: a request one of whose redis calls failed ends right there with the
\* connection error as an unhandled fault: the failed call is its last one, it
\* is not repeated, and the response is neither NotFound nor a result; a
\* request that goes on has had no failed call.
C10_StoreFailureIsHardFailure ==
    /\ \A i \in 1..Len(out.log) :
          ~out.log[i].ok
              => /\ i = Len(out.log)
                 /\ out.resp = Fault("ConnectionError")
                 /\ \A j \in 1..(i - 1) :
                       <<out.log[j].op, out.log[j].key>>
                           # <<out.log[i].op, out.log[i].key>>
    /\ \A w \in Workers : \A i \in 1..Len(log[w]) : log[w][i].ok

\* C10 witness: a certificate lookup that missed locally hit a redis outage
C10_Witness ==
    /\ out.resp = Fault("ConnectionError")
    /\ Len(out.log) = 2
    /\ out.log[2].op = "GET"
    /\ ~out.log[2].ok


\* C7: a get that immediately follows a successful put of the same
\* label on the same instance returns the value put; a get of a label that was
\* never written, with redis reachable, raises KeyError.
C7_PutThenGet ==
    (Finished("get") /\ hist.after.put
        => out.resp.status = "OK" /\ out.resp.bundle = hist.after.bundle)
    /\ (Finished("get") /\ out.arg \notin hist.written /\ AllCallsOk
        => out.resp = Fault("KeyError"))

\* the request that worker w began or finished in this step was handed to the
\* operation op
Routed(w, op) ==
    \/ out'.worker = w /\ out'.op = op
    \/ pc'[w] # "idle" /\ req'[w].op = op

\* C11: a request whose path starts with the segment "config" goes to the
\* registration endpoint: if anything but slashes follows the mount point it
\* ends with NotFound whatever the method, otherwise with MethodNotAllowed
\* unless the method is POST, and in both cases without a redis call, a store
\* write or a registration; only POST on the mount point itself registers.
\* Every other request is looked up on the serving surface and writes no
\* config entry.
C11_DispatcherRouting ==
    [][\A w \in Workers, path \in Paths, method \in Methods :
          \A config \in DispatchConfigs :
              HandleRequest(w, path, method, config) =>
                  IF path[1] # "config"
                  THEN Routed(w, "resolve") /\ store' = store
                  ELSE IF \E i \in 2..Len(path) : path[i] # ""
                  THEN /\ out'.resp = HttpError("NotFound", None)
                       /\ out'.log = <<>>
                       /\ store' = store /\ regSeen' = regSeen
                  ELSE IF method # "POST"
                  THEN /\ out'.resp = HttpError("MethodNotAllowed", None)
                       /\ out'.log = <<>>
                       /\ store' = store /\ regSeen' = regSeen
                  ELSE Routed(w, "register")]_vars

\* C11 witness: a request on the mount point was refused for its method
\* while the store holds a registered architecture
C11_Witness ==
    /\ out.op = "config"
    /\ out.resp.status = "MethodNotAllowed"
    /\ store # <<>>

\* C12: a successful registration reports as its label the lowercase hex
\* SHA-1 of the bytes submitted (40 characters) and has written those bytes
\* under that label's config key; the documents registered so far have
\* pairwise different labels and pairwise different config keys.
C12_LabelIsDigestOfBytes ==
    /\ (Finished("register") /\ out.resp.status = "OK")
          => /\ out.resp.arch = Sha1Hex(out.arg)
             /\ Len(out.resp.arch) = 40
             /\ out.log[1].op = "SET"
             /\ out.log[1].key = fmt_arch_config_name(Sha1Hex(out.arg))
    /\ \A w \in Workers :
          (pc[w] # "idle" /\ req[w].op = "register")
              => /\ cur[w].label = Sha1Hex(req[w].arg)
                 /\ cur[w].cfg = req[w].arg
    /\ \A c1 \in DOMAIN regSeen, c2 \in DOMAIN regSeen :
          c1 # c2
              => /\ regSeen[c1].arch # regSeen[c2].arch
                 /\ fmt_arch_config_name(regSeen[c1].arch)
                       # fmt_arch_config_name(regSeen[c2].arch)

\* C12 witness: two different documents are registered and both config entries
\* are alive, each under its own key
C12_Witness ==
    /\ Finished("register")
    /\ out.resp.status = "OK"
    /\ DOMAIN regSeen = GoodConfigs
    /\ \A c \in GoodConfigs :
          /\ fmt_arch_config_name(Sha1Hex(c)) \in DOMAIN store
          /\ store[fmt_arch_config_name(Sha1Hex(c))].val = c

\* worker w makes the redis SET of a registration of the bytes c in this step
RegisterSets(w, c) ==
    /\ pc[w] = "idle"
    /\ pc'[w] = "certs"
    /\ req'[w] = [op |-> "register", arg |-> c]

\* time passes in this step and nothing else happens
TimePasses == pc' = pc /\ storeUp' = storeUp /\ store' = Expire(store)

\* C13: while registrations of the same bytes are in flight on both workers,
\* in whatever order their steps are taken: both hold the same label built
\* from the same bytes; each one whose redis calls went through ends
\* successfully with that label and the same certificates as the first
\* registration of the bytes; every SET of the config entry, the later one
\* included, leaves the entry holding the bytes with the full architecture
\* TTL; and no other step touches the entry except time passing.
C13_ConcurrentRegistrationsAgree ==
    [][/\ \A c \in GoodConfigs :
             LET key == fmt_arch_config_name(Sha1Hex(c)) IN
             /\ (\A w \in Workers :
                    pc'[w] # "idle" /\ req'[w] = [op |-> "register", arg |-> c])
                   => \A w \in Workers :
                         cur'[w].label = Sha1Hex(c) /\ cur'[w].cfg = c
             /\ IF \E w \in Workers : RegisterSets(w, c)
                THEN /\ key \in DOMAIN store'
                     /\ store'[key] = [val |-> c, ttl |-> ArchTtlOf(impl)]
                ELSE key \in DOMAIN store
                        => \/ key \in DOMAIN store' /\ store'[key] = store[key]
                           \/ TimePasses
       /\ (out'.op = "register" /\ out'.arg \in GoodConfigs
              /\ \A i \in 1..Len(out'.log) : out'.log[i].ok)
             => /\ out'.resp.status = "OK"
                /\ out'.resp.arch = Sha1Hex(out'.arg)
                /\ out'.arg \in DOMAIN regSeen'
                /\ out'.resp.bundle = regSeen'[out'.arg].bundle
                /\ fmt_arch_config_name(out'.resp.arch) \in DOMAIN store'
                      => store'[fmt_arch_config_name(out'.resp.arch)].val
                            = out'.arg]_vars

\* C13 witness: two registrations of the same bytes overlap and overtake each
\* other: the worker that made the second SET (over the other's entry) has
\* finished successfully while the worker that made the first SET is still
\* bundling its response, and the entry is alive
C13_Witness ==
    \E w \in Workers :
        /\ Finished("register")
        /\ out.resp.status = "OK"
        /\ out.worker # w
        /\ out.log[1] = [op |-> "SET",
                         key |-> fmt_arch_config_name(Sha1Hex(out.arg)),
                         ok |-> TRUE, hit |-> TRUE]
        /\ pc[w] # "idle"
        /\ req[w] = [op |-> "register", arg |-> out.arg]
        /\ log[w][1].op = "SET" /\ ~log[w][1].hit
        /\ fmt_arch_config_name(Sha1Hex(out.arg)) \in DOMAIN store

\* C14: when a worker that has just finished a successful resolve of a
\* non-static label takes a resolve of the same label as its next request,
\* that request is answered from the worker's local architecture cache: it
\* makes no redis call and yields the architecture built before.
C14_LaterResolveServedLocally ==
    [][\A w \in Workers :
          (/\ out.op = "resolve" /\ out.worker = w
           /\ out.resp.status = "OK"
           /\ out.arg \notin StaticLabels
           /\ pc[w] = "idle"
           /\ \/ pc'[w] # "idle" /\ req'[w] = [op |-> "resolve", arg |-> out.arg]
              \/ out'.op = "resolve" /\ out'.worker = w /\ out'.arg = out.arg)
              => /\ pc'[w] = "idle"
                 /\ out'.log = <<>>
                 /\ out'.resp.status = "OK"
                 /\ out'.resp.arch = out.resp.arch
                 /\ out'.resp.built = out.resp.built]_vars

\* C15, as claimed: a registration request that does not end successfully
\* has made no SET of a config key.
C15_FailedRequestMadeNoSet ==
    (Finished("register") /\ out.resp.status # "OK")
        => \A i \in 1..Len(out.log) :
              ~(out.log[i].op = "SET" /\ out.log[i].ok
                  /\ out.log[i].key = fmt_arch_config_name(Sha1Hex(out.arg)))

\* C15, amended: the step in which register_new_architecture fails (the build
\* raises, caught as BadRequest or not, or the SET itself fails) leaves the
\* whole store as it was, content and expiry of every entry, and completes no
\* redis call; and a registration request that failed after a SET that went
\* through failed on a later redis call, with the entry holding the bytes
\* submitted for as long as it lives.
C15_FailedRegisterCallWritesNothing ==
    [][/\ \A w \in Workers :
             (/\ pc[w] = "idle"
              /\ out'.op = "register" /\ out'.worker = w
              /\ out'.resp.status # "OK")
                 => /\ store' = store
                    /\ regSeen' = regSeen
                    /\ \A i \in 1..Len(out'.log) : ~out'.log[i].ok
       /\ (/\ out'.op = "register" /\ out'.resp.status # "OK"
           /\ out'.log # <<>>
           /\ out'.log[1].ok)
             => /\ out'.arg \in GoodConfigs
                /\ out'.resp = Fault("ConnectionError")
                /\ Len(out'.log) > 1
                /\ ~out'.log[Len(out'.log)].ok
                /\ fmt_arch_config_name(Sha1Hex(out'.arg)) \in DOMAIN store'
                      => store'[fmt_arch_config_name(Sha1Hex(out'.arg))].val
                            = out'.arg]_vars

\* C15 witness: a registration was rejected as a bad configuration while an
\* earlier registration's config entry is part-way through its life
C15_Witness ==
    /\ Finished("register")
    /\ out.resp.status = "BadRequest"
    /\ \E c \in GoodConfigs :
          /\ fmt_arch_config_name(Sha1Hex(c)) \in DOMAIN store
          /\ store[fmt_arch_config_name(Sha1Hex(c))].ttl < ArchTtlOf(impl)

\* the step is a get of label item on worker w's instance
GetStep(w, item) ==
    out'.op = "get" /\ out'.worker = w /\ out'.arg = item

\* the get that the step finished was answered without a redis call, with the
\* certificate value
ServedLocally(item, value) ==
    /\ out'.log = <<>>
    /\ out'.resp.status = "OK"
    /\ out'.resp.bundle = {<<item, value>>}

\* C16: once a get or a put of a label has succeeded on an
\* instance, every later get of the label on that instance is answered
\* without a redis call, with the bytes of the most recent of them.
C16_GetOrPutThenLocal ==
    [][\A w \in Workers, item \in CacheItems :
          (GetStep(w, item) /\ item \in DOMAIN hist.last[w])
              => ServedLocally(item, hist.last[w][item])]_vars

\* C17: a put that fails leaves the store and the instance's local mapping as
\* they were, the put of a value that is no certificate without having made a
\* redis call; and whenever an entry enters a local mapping or changes there,
\* redis holds, in that moment, the same bytes under the entry's key.
C17_PutStoreBeforeLocal ==
    [][\A w \in Workers :
          /\ (out'.op = "put" /\ out'.worker = w /\ out'.resp.status # "OK")
                => /\ cur'[w].cache = cur[w].cache
                   /\ store' = store
                   /\ out'.resp = Fault("TypeError") => out'.log = <<>>
                   /\ out'.resp # Fault("TypeError")
                         => /\ out'.resp = Fault("ConnectionError")
                            /\ Len(out'.log) = 1
                            /\ ~out'.log[1].ok
          /\ \A item \in DOMAIN cur'[w].cache :
                (\/ item \notin DOMAIN cur[w].cache
                 \/ cur'[w].cache[item] # cur[w].cache[item])
                    => /\ _fmt_item_name(cur'[w].label, item) \in DOMAIN store'
                       /\ store'[_fmt_item_name(cur'[w].label, item)].val
                             = Dump(cur'[w].cache[item])]_vars

\* C17 witness: a put of another certificate failed on a redis outage while
\* the instance's local mapping holds the label, and the mapping still holds
\* what it held
C17_Witness ==
    /\ Finished("put")
    /\ out.resp = Fault("ConnectionError")
    /\ out.arg \in DOMAIN cur[out.worker].cache
    /\ cur[out.worker].cache[out.arg] = Derive(CfgA, "ca")
    /\ impl = "aas"

\* C18: the life a config entry has left is redis_arch_ttl in the moment a
\* registration of its bytes makes its SET, goes down by one with every tick
\* until the entry is gone, and is touched by nothing else: no resolve, on any
\* worker, and no other step changes, extends, shortens or deletes the entry.
\* A resolve of a non-static label that reaches redis when the label's entry
\* is gone ends with NotFound.
C18_ExpirySetByRegisterOnly ==
    [][/\ \A c \in GoodConfigs :
             LET key == fmt_arch_config_name(Sha1Hex(c)) IN
             /\ IF \E w \in Workers : RegisterSets(w, c)
                THEN /\ key \in DOMAIN store'
                     /\ store'[key] = [val |-> c, ttl |-> ArchTTL]
                ELSE IF key \notin DOMAIN store
                THEN key \notin DOMAIN store'
                ELSE IF TimePasses
                THEN IF store[key].ttl > 1
                     THEN /\ key \in DOMAIN store'
                          /\ store'[key] = [val |-> c, ttl |-> store[key].ttl - 1]
                     ELSE key \notin DOMAIN store'
                ELSE key \in DOMAIN store' /\ store'[key] = store[key]
             /\ key \in DOMAIN store' => store'[key].ttl \in 1..ArchTTL
       /\ \A w \in Workers :
             (/\ pc[w] = "idle"
              /\ out'.op = "resolve" /\ out'.worker = w
              /\ out'.arg \notin StaticLabels
              /\ storeUp
              /\ fmt_arch_config_name(out'.arg) \notin DOMAIN store)
                 => /\ out'.resp = HttpError("NotFound", None)
                    /\ store' = store]_vars

\* C18 witness: a registered label is resolved after its entry has expired,
\* and ends with NotFound, while another worker is still serving a resolve of
\* the same label that it began when the entry was alive
C18_Witness ==
    \E w \in Workers :
        /\ Finished("resolve")
        /\ out.resp.status = "NotFound"
        /\ out.worker # w
        /\ \E c \in DOMAIN regSeen : regSeen[c].arch = out.arg
        /\ pc[w] # "idle"
        /\ req[w] = [op |-> "resolve", arg |-> out.arg]

\* C19: every entry in redis is a config entry with between one tick and
\* redis_arch_ttl left, or a certificate entry with between one tick and
\* redis_cert_ttl left; and a resolve of a non-static label that found the
\* config entry alive and had no redis failure succeeds with the
\* architecture's certificates, every certificate whose entry was gone having
\* been derived and put again (with the full certificate TTL).
C19_EveryEntryExpires ==
    /\ \A k \in DOMAIN store :
          \/ /\ \E c \in GoodConfigs : k = fmt_arch_config_name(Sha1Hex(c))
             /\ store[k].ttl \in 1..ArchTTL
          \/ /\ \E c \in GoodConfigs, i \in CertLabels :
                   k = _fmt_item_name(Sha1Hex(c), i)
             /\ store[k].ttl \in 1..CertTTL
    /\ (/\ Finished("resolve")
        /\ out.arg \notin StaticLabels
        /\ out.log # <<>>
        /\ out.log[1].hit
        /\ AllCallsOk)
          => /\ out.resp.status = "OK"
             /\ out.resp.bundle
                   = {<<i, Derive(out.resp.built, i)>> : i \in CertLabels}
             /\ \A j \in 2..Len(out.log) :
                   (out.log[j].op = "GET" /\ ~out.log[j].hit)
                       => /\ j < Len(out.log)
                          /\ out.log[j + 1].op = "SET"
                          /\ out.log[j + 1].key = out.log[j].key
                          /\ j + 1 = Len(out.log)
                                => /\ out.log[j].key \in DOMAIN store
                                   /\ store[out.log[j].key].ttl = CertTTL

\* C19 witness: a label registered earlier is resolved when its config entry
\* is part-way through its life and its certificate entry has expired; the
\* certificate was derived and put again
C19_Witness ==
    /\ Finished("resolve")
    /\ out.resp.status = "OK"
    /\ \E c \in DOMAIN regSeen : regSeen[c].arch = out.arg
    /\ Len(out.log) = 3
    /\ out.log[1].hit
    /\ out.log[2].op = "GET" /\ ~out.log[2].hit
    /\ out.log[3].op = "SET"
    /\ store[fmt_arch_config_name(out.arg)].ttl < ArchTTL

\* C20: no certificate key is the config key of a label resolve is called
\* with: whatever a resolve finds under its label's config key is raw
\* configuration that a registration wrote there, never the bytes of a
\* certificate, and the resolve yields the architecture built from it.
C20_ResolveReadsConfigOnly ==
    (/\ Finished("resolve")
     /\ out.log # <<>>
     /\ out.log[1].ok
     /\ out.log[1].hit)
        => /\ \A a \in LayoutLabels, i \in {"x_config"} :
                 out.log[1].key # _fmt_item_name(a, i)
           /\ out.resp.exc # "UnicodeDecodeError"
           /\ out.resp.status = "OK"
           /\ out.resp.built = CfgX

============================================================================
